---- MODULE Spec2Model ----
(***************************************************************************)
(* Workflow execution engine with AI-assisted self-healing.                *)
(* Model of src/app/lib/self-healing.ts: the Failure Classifier            *)
(* (isErrorHealable), the Fix Proposer adapter (attemptSelfHealing), the   *)
(* Step Runner (executeStep, executeStepWithHealing) and the Execution     *)
(* Orchestrator (executeWorkflow), over the Execution Store tables         *)
(* x_execution_logs, step_executions and execution_events.                 *)
(***************************************************************************)
EXTENDS Integers, Sequences, FiniteSets, TLC

VARIABLES
  steps,          \* the steps array handed to executeWorkflow
  exec,           \* the x_execution_logs row of the execution
  context,        \* ExecutionContext: current_step_index, step_outputs
  rows,           \* step_executions rows, in creation order
  events,         \* execution_events rows, in creation order
  pc,             \* position of the executeWorkflow task
  i,              \* loop variable of executeWorkflow (0-based)
  error,          \* error caught by executeStepWithHealing (original failure)
  healedStep,     \* derived step built for the healed retry
  stepExecutionId,\* id (index in rows) of the row of the running executeStep
  invocations,    \* calls of the Action Invoker, in call order
  proposals,      \* calls of the Fix Proposer, in call order
  propagated,     \* error that executeStepWithHealing threw to executeWorkflow
  text,           \* classifier input: an error text, as a sequence of fragments
  verdict,        \* result of isErrorHealable on text
  verdictV1,      \* result of the earlier isErrorHealable on text
  workflow,       \* the x_workflows row of the workflow
  workflowsRow,   \* the row with the workflow's id in table workflows
  requests,       \* per client: the API request in progress
  responses,      \* the responses of the finished API requests, in order
  refused,        \* the event types whose insert the store refuses
  faults          \* the rejected step_executions writes, in order

vars == <<steps, exec, context, rows, events, pc, i, error, healedStep,
          stepExecutionId, invocations, proposals, propagated,
          text, verdict, verdictV1, workflow, workflowsRow, requests, responses,
          refused, faults>>

storeVars == <<workflow, workflowsRow, requests, responses>>

faultVars == <<refused, faults>>

execVars == <<steps, exec, context, rows, events, pc, i, error, healedStep,
              stepExecutionId, invocations, proposals, propagated>>

(***************************************************************************)
(* Bounds                                                                  *)
(***************************************************************************)
MaxSteps == 2
MaxFrags == 3

(***************************************************************************)
(* Strings.  A JavaScript string is the sequence of its characters; the    *)
(* table lists every string literal the model uses.                        *)
(***************************************************************************)
CharsOf(s) ==
  CASE s = "unauthorized" -> <<"u", "n", "a", "u", "t", "h", "o", "r", "i", "z", "e", "d">>
    [] s = "forbidden" -> <<"f", "o", "r", "b", "i", "d", "d", "e", "n">>
    [] s = "authentication failed" -> <<"a", "u", "t", "h", "e", "n", "t", "i", "c", "a", "t", "i", "o", "n", " ", "f", "a", "i", "l", "e", "d">>
    [] s = "permission denied" -> <<"p", "e", "r", "m", "i", "s", "s", "i", "o", "n", " ", "d", "e", "n", "i", "e", "d">>
    [] s = "quota exceeded" -> <<"q", "u", "o", "t", "a", " ", "e", "x", "c", "e", "e", "d", "e", "d">>
    [] s = "rate limit" -> <<"r", "a", "t", "e", " ", "l", "i", "m", "i", "t">>
    [] s = "rate_limit" -> <<"r", "a", "t", "e", "_", "l", "i", "m", "i", "t">>
    [] s = "missing_scope" -> <<"m", "i", "s", "s", "i", "n", "g", "_", "s", "c", "o", "p", "e">>
    [] s = "invalid_auth" -> <<"i", "n", "v", "a", "l", "i", "d", "_", "a", "u", "t", "h">>
    [] s = "token_revoked" -> <<"t", "o", "k", "e", "n", "_", "r", "e", "v", "o", "k", "e", "d">>
    [] s = "account_suspended" -> <<"a", "c", "c", "o", "u", "n", "t", "_", "s", "u", "s", "p", "e", "n", "d", "e", "d">>
    [] s = "not found" -> <<"n", "o", "t", " ", "f", "o", "u", "n", "d">>
    [] s = "not_found" -> <<"n", "o", "t", "_", "f", "o", "u", "n", "d">>
    [] s = "invalid" -> <<"i", "n", "v", "a", "l", "i", "d">>
    [] s = "missing" -> <<"m", "i", "s", "s", "i", "n", "g">>
    [] s = "incorrect" -> <<"i", "n", "c", "o", "r", "r", "e", "c", "t">>
    [] s = "channel" -> <<"c", "h", "a", "n", "n", "e", "l">>
    [] s = "parameter" -> <<"p", "a", "r", "a", "m", "e", "t", "e", "r">>
    [] s = "configuration" -> <<"c", "o", "n", "f", "i", "g", "u", "r", "a", "t", "i", "o", "n">>
    [] s = "format" -> <<"f", "o", "r", "m", "a", "t">>
    [] s = "syntax" -> <<"s", "y", "n", "t", "a", "x">>
    [] s = "cannot read" -> <<"c", "a", "n", "n", "o", "t", " ", "r", "e", "a", "d">>
    [] s = "is not" -> <<"i", "s", " ", "n", "o", "t">>
    [] s = "undefined" -> <<"u", "n", "d", "e", "f", "i", "n", "e", "d">>
    [] s = "null" -> <<"n", "u", "l", "l">>
    [] s = "type error" -> <<"t", "y", "p", "e", " ", "e", "r", "r", "o", "r">>
    [] s = "typeerror" -> <<"t", "y", "p", "e", "e", "r", "r", "o", "r">>
    [] s = "does not exist" -> <<"d", "o", "e", "s", " ", "n", "o", "t", " ", "e", "x", "i", "s", "t">>
    [] s = "no such" -> <<"n", "o", " ", "s", "u", "c", "h">>
    [] s = "bad request" -> <<"b", "a", "d", " ", "r", "e", "q", "u", "e", "s", "t">>
    [] s = "400" -> <<"4", "0", "0">>
    [] s = "404" -> <<"4", "0", "4">>
    [] s = "422" -> <<"4", "2", "2">>
    [] s = "Unauthorized" -> <<"U", "n", "a", "u", "t", "h", "o", "r", "i", "z", "e", "d">>
    [] s = "FORBIDDEN" -> <<"F", "O", "R", "B", "I", "D", "D", "E", "N">>
    [] s = "Channel" -> <<"C", "h", "a", "n", "n", "e", "l">>
    [] s = "Not" -> <<"N", "o", "t">>
    [] s = "Found" -> <<"F", "o", "u", "n", "d">>
    [] s = "rate" -> <<"r", "a", "t", "e">>
    [] s = "limit" -> <<"l", "i", "m", "i", "t">>
    [] s = "auth" -> <<"a", "u", "t", "h">>
    [] s = "timeout" -> <<"t", "i", "m", "e", "o", "u", "t">>
    [] s = " " -> <<" ">>
    [] s = "_" -> <<"_">>
    [] s = ": " -> <<":", " ">>
    [] s = "404 Channel Not Found: #general-test" -> <<"4", "0", "4", " ", "C", "h", "a", "n", "n", "e", "l", " ", "N", "o", "t", " ", "F", "o", "u", "n", "d", ":", " ", "#", "g", "e", "n", "e", "r", "a", "l", "-", "t", "e", "s", "t">>
    [] s = "401 unauthorized" -> <<"4", "0", "1", " ", "u", "n", "a", "u", "t", "h", "o", "r", "i", "z", "e", "d">>
    [] s = "unauthorized: invalid channel" -> <<"u", "n", "a", "u", "t", "h", "o", "r", "i", "z", "e", "d", ":", " ", "i", "n", "v", "a", "l", "i", "d", " ", "c", "h", "a", "n", "n", "e", "l">>
    [] s = "Invalid email" -> <<"I", "n", "v", "a", "l", "i", "d", " ", "e", "m", "a", "i", "l">>
    [] s = "Failed to generate self-healing fix" -> <<"F", "a", "i", "l", "e", "d", " ", "t", "o", " ", "g", "e", "n", "e", "r", "a", "t", "e", " ", "s", "e", "l", "f", "-", "h", "e", "a", "l", "i", "n", "g", " ", "f", "i", "x">>
    [] s = "Error" -> <<"E", "r", "r", "o", "r">>
    [] s = "Unknown error" -> <<"U", "n", "k", "n", "o", "w", "n", " ", "e", "r", "r", "o", "r">>
    [] s = "store write failed" -> <<"s", "t", "o", "r", "e", " ", "w", "r", "i", "t", "e", " ", "f", "a", "i", "l", "e", "d">>
    [] s = "invalid input syntax for type json" -> <<"i", "n", "v", "a", "l", "i", "d", " ", "i", "n", "p", "u", "t", " ", "s", "y", "n", "t", "a", "x", " ", "f", "o", "r", " ", "t", "y", "p", "e", " ", "j", "s", "o", "n">>
    [] s = "" -> <<>>

LowerChar(c) ==
  CASE c = "A" -> "a"
    [] c = "B" -> "b"
    [] c = "C" -> "c"
    [] c = "D" -> "d"
    [] c = "E" -> "e"
    [] c = "F" -> "f"
    [] c = "G" -> "g"
    [] c = "H" -> "h"
    [] c = "I" -> "i"
    [] c = "J" -> "j"
    [] c = "K" -> "k"
    [] c = "L" -> "l"
    [] c = "M" -> "m"
    [] c = "N" -> "n"
    [] c = "O" -> "o"
    [] c = "P" -> "p"
    [] c = "Q" -> "q"
    [] c = "R" -> "r"
    [] c = "S" -> "s"
    [] c = "T" -> "t"
    [] c = "U" -> "u"
    [] c = "V" -> "v"
    [] c = "W" -> "w"
    [] c = "X" -> "x"
    [] c = "Y" -> "y"
    [] c = "Z" -> "z"
    [] OTHER -> c

None == "none"

\* String.prototype.toLowerCase
toLowerCase(s) == [k \in 1..Len(s) |-> LowerChar(s[k])]

\* String.prototype.includes
includes(s, pattern) ==
  \E k \in 0..(Len(s) - Len(pattern)) : SubSeq(s, k + 1, k + Len(pattern)) = pattern

(***************************************************************************)
(* Failure Classifier                                                      *)
(***************************************************************************)
permanentPatterns ==
  {"unauthorized", "forbidden", "authentication failed", "permission denied",
   "quota exceeded", "rate limit", "rate_limit", "missing_scope",
   "invalid_auth", "token_revoked", "account_suspended"}

healablePatterns ==
  {"not found", "not_found", "invalid", "missing", "incorrect", "channel",
   "parameter", "configuration", "format", "syntax", "cannot read", "is not",
   "undefined", "null", "type error", "typeerror", "does not exist",
   "no such", "bad request", "400", "404", "422"}

\* error?.message || String(error), for an Error whose message is a char sequence
errorMessageOf(err) ==
  IF err.message # <<>> THEN err.message ELSE CharsOf("Error")

\* the two checks in the opposite order: a healable pattern wins
isErrorHealable_healableFirst(err) ==
  LET lowerError == toLowerCase(errorMessageOf(err))
  IN  IF \E pattern \in healablePatterns : includes(lowerError, CharsOf(pattern))
      THEN TRUE
      ELSE FALSE

isErrorHealable(err) ==
  LET lowerError == toLowerCase(errorMessageOf(err))
  IN  IF \E pattern \in permanentPatterns : includes(lowerError, CharsOf(pattern))
      THEN FALSE
      ELSE \E pattern \in healablePatterns : includes(lowerError, CharsOf(pattern))

\* the earlier revision of the classifier (shorter pattern lists)
permanentPatternsV1 ==
  {"unauthorized", "forbidden", "authentication failed", "permission denied",
   "quota exceeded", "rate limit"}

healablePatternsV1 ==
  {"not found", "invalid", "missing", "incorrect", "channel", "parameter",
   "configuration", "format"}

isErrorHealableV1(err) ==
  LET lowerError == toLowerCase(errorMessageOf(err))
  IN  IF \E pattern \in permanentPatternsV1 : includes(lowerError, CharsOf(pattern))
      THEN FALSE
      ELSE \E pattern \in healablePatternsV1 : includes(lowerError, CharsOf(pattern))

\* error texts the classifier is exercised on: concatenations of fragments
Fragments ==
  {"Unauthorized", "FORBIDDEN", "invalid", "Channel", "Not", "Found", "rate",
   "limit", "auth", "timeout", "404", " ", "_", ": "}

RECURSIVE Concat(_)
Concat(frags) ==
  IF frags = <<>> THEN <<>> ELSE CharsOf(Head(frags)) \o Concat(Tail(frags))

Texts == UNION {[1..n -> Fragments] : n \in 0..MaxFrags}

(***************************************************************************)
(* Workflow steps and workflows                                            *)
(***************************************************************************)
\* WorkflowStep: id, type, tool?, config?, position?, next? (None = absent);
\* a config is an opaque value
StepPool ==
  {[id |-> "step_1", type |-> "action", tool |-> "slack_invite",
    config |-> "channel=#general-test", position |-> "x=0,y=0", next |-> "step_2"],
   [id |-> "step_2", type |-> "action", tool |-> "email_send",
    config |-> "to=a@b.com", position |-> None, next |-> None],
   [id |-> "step_3", type |-> "end", tool |-> None,
    config |-> None, position |-> None, next |-> None]}

\* step arrays with pairwise distinct ids, of at most MaxSteps steps
Workflows ==
  {w \in UNION {[1..n -> StepPool] : n \in 0..MaxSteps} :
     \A a, b \in DOMAIN w : a # b => w[a].id # w[b].id}

StepIndexes == 0..(MaxSteps - 1)

(***************************************************************************)
(* Execution Store helpers                                                 *)
(***************************************************************************)
Merge(record, updates) ==
  [k \in DOMAIN record |-> IF k \in DOMAIN updates THEN updates[k] ELSE record[k]]

\* output_data of a row whose invocation has returned nothing
NoResult == [success |-> FALSE, tool |-> None, config |-> None]

EmptyMap == [k \in {} |-> None]

\* the x_execution_logs row before POST /api/execute/[id] has inserted it
NoExecution ==
  [status |-> None, current_step_index |-> 0, current_step_id |-> None,
   output_result |-> EmptyMap, error_message |-> None,
   started_at |-> FALSE, completed_at |-> FALSE]

\* the result is not stored
Put_dropsEntry(map, key, value) == map

Put(map, key, value) ==
  [k \in (DOMAIN map) \cup {key} |-> IF k = key THEN value ELSE map[k]]

\* an execution_events row
Event(event_type, step_id, step_index, detail) ==
  [event_type |-> event_type, step_id |-> step_id, step_index |-> step_index,
   detail |-> detail, original_error |-> None, fix_applied |-> None,
   ai_reasoning |-> None, retry_count |-> 0]

\* the insert of a retry event is refused and the refusal only printed
logEvent_rejectsRetry(evs, event) ==
  IF event.event_type = "retry" THEN evs ELSE Append(evs, event)

\* the insert of a step_completed event is refused and the refusal only printed
logEvent_rejectsCompleted(evs, event) ==
  IF event.event_type = "step_completed" THEN evs ELSE Append(evs, event)

\* the insert; when the store returns an error it is printed and the event
\* is not recorded
logEvent(evs, event) ==
  IF event.event_type \in refused THEN evs ELSE Append(evs, event)

createStepExecution(rs, step, stepIndex) ==
  Append(rs, [step_id |-> step.id, step_index |-> stepIndex,
              step_type |-> step.type, tool_name |-> step.tool,
              status |-> "running", input_data |-> step.config,
              output_data |-> NoResult, error_message |-> None,
              retry_count |-> 0, was_healed |-> FALSE,
              started_at |-> TRUE, completed_at |-> FALSE])

\* an update that matches no row
updateStepExecution_noRow(rs, id, updates) == rs

updateStepExecution(rs, id, updates) ==
  [rs EXCEPT ![id] = Merge(@, updates)]

updateExecutionLog(e, updates) == Merge(e, updates)

(***************************************************************************)
(* Action Invoker                                                          *)
(***************************************************************************)
\* messages of the failures the invoker raises: simulateToolExecution, the
\* stand-in for the tool integrations, throws the first one; the others are
\* failures of the kinds the classifier's pattern lists are written for
\* (a permanent one, one with a permanent and a healable pattern, a second
\* healable one, and one that matches no pattern)
ErrorMessages ==
  {"404 Channel Not Found: #general-test", "401 unauthorized",
   "unauthorized: invalid channel", "Invalid email", "timeout"}

Failure(message) == [name |-> "Error", message |-> message]

NoError == [name |-> None, message |-> None]

\* healedStep before a healed step has been derived
NoStep ==
  [id |-> None, type |-> None, tool |-> None, config |-> None,
   position |-> None, next |-> None]

\* the value a successful invocation returns: determined by tool and config
simulateToolExecution(step) ==
  [success |-> TRUE,
   tool |-> IF step.tool = None THEN "unknown" ELSE step.tool,
   config |-> step.config]

extractErrorDetails(err) == [message |-> err.message]

\* isErrorHealable applied to a thrown Error
Healable(err) == isErrorHealable([message |-> CharsOf(err.message)])

(***************************************************************************)
(* Fix Proposer                                                            *)
(***************************************************************************)
MAX_RETRY_ATTEMPTS == 1

\* executeWorkflow calls executeStepWithHealing(step, context): retryCount = 0
retryCount == 0

\* confidence of a decoded response, in hundredths; num = FALSE when the
\* field is absent or not a number
Number(v) == [num |-> TRUE, value |-> v]

NotANumber == [num |-> FALSE, value |-> 0]

Confidences == {Number(0), Number(10), Number(11), Number(85), Number(150), NotANumber}

\* what the language-model call yields: it throws, returns no content,
\* returns text that is not JSON, or returns a JSON object
ProposerResponses ==
  [kind : {"api_error", "no_content", "malformed"},
   fixed_config : {None}, reasoning : {None}, confidence : {NotANumber}]
  \cup
  [kind : {"json"},
   fixed_config : {None, "channel=general"},
   reasoning : {None, "channel not found: removed # and -test suffix"},
   confidence : Confidences]

\* a Fix Proposer call that has not returned
NoResponse ==
  [kind |-> None, fixed_config |-> None, reasoning |-> None, confidence |-> NotANumber]

HealingFailed == Failure("Failed to generate self-healing fix")

\* the bound excluded: result.confidence < 0.1
lowConfidence_exclusive(c) == c.num /\ c.value < 10

\* result.confidence <= 0.1 (a comparison with a non-number is false)
lowConfidence(c) == c.num /\ c.value <= 10

attemptSelfHealing(response) ==
  IF response.kind # "json"
  THEN [ok |-> FALSE, err |-> HealingFailed, result |-> NoResponse]
  ELSE IF response.fixed_config = None \/ response.reasoning = None
  THEN [ok |-> FALSE, err |-> HealingFailed, result |-> NoResponse]
  ELSE IF lowConfidence(response.confidence)
  THEN [ok |-> FALSE, err |-> HealingFailed, result |-> NoResponse]
  ELSE [ok |-> TRUE, err |-> NoError,
        result |-> response]

\* the healed step built field by field, without the spread of step
deriveHealedStep_noSpread(step, healingResult) ==
  [NoStep EXCEPT !.id = step.id, !.type = step.type,
                 !.config = healingResult.fixed_config]

\* const healedStep = { ...step, config: healingResult.fixed_config }
deriveHealedStep(step, healingResult) ==
  [step EXCEPT !.config = healingResult.fixed_config]

\* the two conditions joined by && instead of ||
giveUp_both(err) == retryCount >= MAX_RETRY_ATTEMPTS /\ ~Healable(err)

\* if (retryCount >= MAX_RETRY_ATTEMPTS || !isErrorHealable(error)) throw error
giveUp(err) == retryCount >= MAX_RETRY_ATTEMPTS \/ ~Healable(err)

\* the catch block rethrows what it caught
rethrown_healingError(err, healingError) == healingError

\* catch (healingError) { ... throw error }
rethrown(err, healingError) == err

\* the rows ordered by created_at ascending: the oldest row of the step
selectStepExecution_oldest(rs, step_id) ==
  LET matching == {n \in 1..Len(rs) : rs[n].step_id = step_id}
  IN  IF matching = {} THEN 0
      ELSE CHOOSE n \in matching : \A m \in matching : n <= m

\* .eq('step_id', step.id).order('created_at', { ascending: false }).limit(1)
\* 0 when the execution has no row for the step
selectStepExecution(rs, step_id) ==
  LET matching == {n \in 1..Len(rs) : rs[n].step_id = step_id}
  IN  IF matching = {} THEN 0
      ELSE CHOOSE n \in matching : \A m \in matching : m <= n

(***************************************************************************)
(* executeWorkflow: the catch block and the final update                   *)
(***************************************************************************)
\* the failed update without the error_message
failExecution_noMessage(e, err) ==
  updateExecutionLog(e, [status |-> "failed", completed_at |-> TRUE])

failExecution(e, err) ==
  updateExecutionLog(e, [status |-> "failed",
                         error_message |-> extractErrorDetails(err).message,
                         completed_at |-> TRUE])

failedEvent(err) == Event("error", None, None, extractErrorDetails(err).message)

completeExecution(e, ctx) ==
  updateExecutionLog(e, [status |-> "completed",
                         output_result |-> ctx.step_outputs,
                         completed_at |-> TRUE])

\* the failure is logged and the loop goes on with the next step
WorkflowCatch_continue(err, evs) ==
  /\ propagated' = err
  /\ exec' = exec
  /\ events' = logEvent(evs, failedEvent(err))
  /\ pc' = "loop"
  /\ i' = i + 1

\* catch block of executeWorkflow, entered with the error that left the
\* loop and the events logged so far: the loop is abandoned
WorkflowCatch(err, evs) ==
  /\ propagated' = err
  /\ exec' = failExecution(exec, err)
  /\ events' = logEvent(evs, failedEvent(err))
  /\ pc' = "done"
  /\ UNCHANGED i

(***************************************************************************)
(* Workflow Store                                                          *)
(***************************************************************************)
Users == {"owner", "other"}

Clients == {"c1", "c2"}

\* the x_workflows row of a workflow the generate route has inserted
StoredWorkflows ==
  [steps : Workflows, version : {1}, is_deleted : {FALSE}, user_id : {"owner"}]

NoWorkflow == [steps |-> <<>>, version |-> 0, is_deleted |-> TRUE, user_id |-> None]

\* a client with no request in progress
NoRequest ==
  [route |-> None, user |-> None, supplied |-> 0, newSteps |-> <<>>,
   fetched |-> NoWorkflow, afterDelete |-> FALSE, stage |-> None]

\* .eq('id', workflowId).eq('user_id', userId).eq('is_deleted', false)
executeFinds(wf, userId) == wf.user_id = userId /\ ~wf.is_deleted

(***************************************************************************)
(* Execution                                                               *)
(***************************************************************************)
Init ==
  /\ steps = <<>>
  /\ exec = NoExecution
  /\ context = [current_step_index |-> 0, step_outputs |-> EmptyMap]
  /\ rows = <<>>
  /\ events = <<>>
  /\ pc = "idle"
  /\ i = 0
  /\ error = NoError
  /\ healedStep = NoStep
  /\ stepExecutionId = 0
  /\ invocations = <<>>
  /\ proposals = <<>>
  /\ propagated = NoError
  /\ text = <<>>
  /\ verdict = None
  /\ verdictV1 = None
  /\ workflow \in StoredWorkflows
  /\ workflowsRow = NoWorkflow
  /\ requests = [c \in Clients |-> NoRequest]
  /\ responses = <<>>
  /\ refused = {}
  /\ faults = <<>>

\* POST /api/execute/[id]: insert the execution as pending and schedule
\* executeWorkflow with the workflow's steps
PostExecute ==
  /\ pc = "idle"
  /\ executeFinds(workflow, workflow.user_id)
  /\ steps' = workflow.steps
  /\ exec' = [NoExecution EXCEPT !.status = "pending"]
  /\ pc' = "scheduled"
  /\ UNCHANGED <<context, rows, events, i, error, healedStep, stepExecutionId,
                 invocations, proposals, propagated, text, verdict, verdictV1, storeVars, faultVars>>

\* executeWorkflow, up to the loop
StartWorkflow ==
  /\ pc = "scheduled"
  /\ context' = [current_step_index |-> 0, step_outputs |-> EmptyMap]
  /\ exec' = updateExecutionLog(exec, [status |-> "running", started_at |-> TRUE])
  /\ i' = 0
  /\ pc' = "loop"
  /\ UNCHANGED <<steps, rows, events, error, healedStep, stepExecutionId,
                 invocations, proposals, propagated, text, verdict, verdictV1, storeVars, faultVars>>

\* RunStep persisting the id of the step without its index
RunStep_keepsIndex ==
  /\ pc = "loop"
  /\ i < Len(steps)
  /\ LET step == steps[i + 1]
     IN  /\ context' = [context EXCEPT !.current_step_index = i]
         /\ exec' = updateExecutionLog(exec, [current_step_id |-> step.id])
         /\ events' = logEvent(events, Event("step_started", step.id, i, step.type))
         /\ rows' = createStepExecution(rows, step, i)
         /\ stepExecutionId' = Len(rows) + 1
         /\ invocations' = Append(invocations,
                                  [step_index |-> i, step |-> step, outcome |-> "pending"])
  /\ error' = NoError
  /\ healedStep' = NoStep
  /\ pc' = "invoke"
  /\ UNCHANGED <<steps, i, proposals, propagated, text, verdict, verdictV1, storeVars, faultVars>>

\* loop body up to the Action Invoker call of executeStep(step, context)
RunStep ==
  /\ pc = "loop"
  /\ i < Len(steps)
  /\ LET step == steps[i + 1]
     IN  /\ context' = [context EXCEPT !.current_step_index = i]
         /\ exec' = updateExecutionLog(exec, [current_step_index |-> i,
                                              current_step_id |-> step.id])
         /\ events' = logEvent(events, Event("step_started", step.id, i, step.type))
         /\ rows' = createStepExecution(rows, step, i)
         /\ stepExecutionId' = Len(rows) + 1
         /\ invocations' = Append(invocations,
                                  [step_index |-> i, step |-> step, outcome |-> "pending"])
  /\ error' = NoError
  /\ healedStep' = NoStep
  /\ pc' = "invoke"
  /\ UNCHANGED <<steps, i, proposals, propagated, text, verdict, verdictV1, storeVars, faultVars>>

\* the first invocation returns a result: executeStep completes the row,
\* executeWorkflow stores the output and moves on
InvokerSucceeds ==
  /\ pc = "invoke"
  /\ LET step == steps[i + 1]
         result == simulateToolExecution(step)
     IN  /\ rows' = updateStepExecution(rows, stepExecutionId,
                       [status |-> "completed", output_data |-> result,
                        completed_at |-> TRUE])
         /\ events' = logEvent(events, Event("step_completed", step.id,
                                             context.current_step_index, None))
         /\ context' = [context EXCEPT !.step_outputs = Put(@, step.id, result)]
  /\ invocations' = [invocations EXCEPT ![Len(invocations)].outcome = "ok"]
  /\ i' = i + 1
  /\ pc' = "loop"
  /\ UNCHANGED <<steps, exec, error, healedStep, stepExecutionId, proposals,
                 propagated, text, verdict, verdictV1, storeVars, faultVars>>

\* the first invocation throws: executeStep records the failure and rethrows;
\* executeStepWithHealing either gives up (the error reaches the catch block of
\* executeWorkflow) or logs the retry and calls the Fix Proposer
InvokerFails ==
  /\ pc = "invoke"
  /\ \E message \in ErrorMessages :
       LET step == steps[i + 1]
           err == Failure(message)
           errorInfo == extractErrorDetails(err)
           evs1 == logEvent(events, Event("step_failed", step.id,
                                          context.current_step_index, errorInfo.message))
       IN  /\ rows' = updateStepExecution(rows, stepExecutionId,
                         [status |-> "failed", error_message |-> errorInfo.message])
           /\ invocations' = [invocations EXCEPT ![Len(invocations)].outcome = message]
           /\ error' = err
           /\ IF giveUp(err)
              THEN /\ WorkflowCatch(err, evs1)
                   /\ UNCHANGED proposals
              ELSE /\ events' = logEvent(evs1, Event("retry", step.id,
                                     context.current_step_index, retryCount + 1))
                   /\ proposals' = Append(proposals,
                                     [step_index |-> context.current_step_index,
                                      step_config |-> step.config,
                                      error_message |-> errorInfo.message,
                                      previous_outputs |-> context.step_outputs,
                                      response |-> NoResponse])
                   /\ pc' = "propose"
                   /\ UNCHANGED <<exec, propagated, i>>
  /\ UNCHANGED <<steps, context, healedStep, stepExecutionId,
                 text, verdict, verdictV1, storeVars, faultVars>>

\* attemptSelfHealing returns or throws.  With a result: the self_healing
\* event is logged, the healed step is derived and executeStep(healedStep)
\* runs up to its Action Invoker call.  Otherwise the catch block logs the
\* healing failure and rethrows, and executeWorkflow marks the execution failed
ProposerReturns ==
  /\ pc = "propose"
  /\ \E response \in ProposerResponses :
       LET step == steps[i + 1]
           errorInfo == extractErrorDetails(error)
           healing == attemptSelfHealing(response)
       IN  /\ proposals' = [proposals EXCEPT ![Len(proposals)].response = response]
           /\ IF healing.ok
              THEN LET healed == deriveHealedStep(step, healing.result)
                       evs1 == logEvent(events,
                                 [Event("self_healing", step.id,
                                        context.current_step_index, None)
                                    EXCEPT !.original_error = errorInfo.message,
                                           !.fix_applied = healing.result.fixed_config,
                                           !.ai_reasoning = healing.result.reasoning,
                                           !.retry_count = retryCount + 1])
                   IN  /\ healedStep' = healed
                       /\ events' = logEvent(evs1, Event("step_started", healed.id,
                                        context.current_step_index, healed.type))
                       /\ rows' = createStepExecution(rows, healed,
                                                      context.current_step_index)
                       /\ stepExecutionId' = Len(rows) + 1
                       /\ invocations' = Append(invocations,
                                           [step_index |-> context.current_step_index,
                                            step |-> healed, outcome |-> "pending"])
                       /\ pc' = "reinvoke"
                       /\ UNCHANGED <<exec, propagated, i>>
              ELSE LET thrown == rethrown(error, healing.err)
                       evs1 == logEvent(events, Event("error", step.id,
                                          context.current_step_index,
                                          healing.err.message))
                   IN  /\ WorkflowCatch(thrown, evs1)
                       /\ UNCHANGED <<healedStep, rows, stepExecutionId, invocations>>
  /\ UNCHANGED <<steps, context, error, text, verdict, verdictV1, storeVars, faultVars>>

\* the healed retry returns a result: executeStep completes the retry's row,
\* executeStepWithHealing marks the newest row of the step healed, and
\* executeWorkflow stores the output and moves on
RetrySucceeds ==
  /\ pc = "reinvoke"
  /\ LET step == steps[i + 1]
         result == simulateToolExecution(healedStep)
         rows1 == updateStepExecution(rows, stepExecutionId,
                     [status |-> "completed", output_data |-> result,
                      completed_at |-> TRUE])
         stepExec == selectStepExecution(rows1, step.id)
     IN  /\ events' = logEvent(events, Event("step_completed", healedStep.id,
                                             context.current_step_index, None))
         /\ rows' = IF stepExec # 0
                    THEN updateStepExecution(rows1, stepExec,
                           [status |-> "healed", was_healed |-> TRUE])
                    ELSE rows1
         /\ context' = [context EXCEPT !.step_outputs = Put(@, step.id, result)]
  /\ invocations' = [invocations EXCEPT ![Len(invocations)].outcome = "ok"]
  /\ i' = i + 1
  /\ pc' = "loop"
  /\ UNCHANGED <<steps, exec, error, healedStep, stepExecutionId, proposals,
                 propagated, text, verdict, verdictV1, storeVars, faultVars>>

\* the retry runs through executeStepWithHealing again with the same
\* retryCount: a healable failure of the retry is healed once more
RetryFails_healsAgain ==
  /\ pc = "reinvoke"
  /\ \E message \in ErrorMessages :
       LET step == steps[i + 1]
           healingError == Failure(message)
           errorInfo == extractErrorDetails(healingError)
           evs1 == logEvent(events, Event("step_failed", healedStep.id,
                                          context.current_step_index, errorInfo.message))
       IN  /\ rows' = updateStepExecution(rows, stepExecutionId,
                         [status |-> "failed", error_message |-> errorInfo.message])
           /\ invocations' = [invocations EXCEPT ![Len(invocations)].outcome = message]
           /\ IF giveUp(healingError)
              THEN /\ WorkflowCatch(error, evs1)
                   /\ UNCHANGED proposals
              ELSE /\ events' = logEvent(evs1, Event("retry", step.id,
                                     context.current_step_index, None))
                   /\ proposals' = Append(proposals,
                                     [step_index |-> context.current_step_index,
                                      step_config |-> healedStep.config,
                                      error_message |-> errorInfo.message,
                                      previous_outputs |-> context.step_outputs,
                                      response |-> NoResponse])
                   /\ pc' = "propose"
                   /\ UNCHANGED <<exec, propagated, i>>
  /\ UNCHANGED <<steps, context, error, healedStep, stepExecutionId,
                 text, verdict, verdictV1, storeVars, faultVars>>

\* the healed retry throws: executeStep records the failure on the retry's
\* row, the catch block of executeStepWithHealing logs it and rethrows, and
\* executeWorkflow marks the execution failed
RetryFails ==
  /\ pc = "reinvoke"
  /\ \E message \in ErrorMessages :
       LET step == steps[i + 1]
           healingError == Failure(message)
           errorInfo == extractErrorDetails(healingError)
           thrown == rethrown(error, healingError)
           evs1 == logEvent(events, Event("step_failed", healedStep.id,
                                          context.current_step_index, errorInfo.message))
           evs2 == logEvent(evs1, Event("error", step.id,
                                        context.current_step_index, healingError.message))
       IN  /\ rows' = updateStepExecution(rows, stepExecutionId,
                         [status |-> "failed", error_message |-> errorInfo.message])
           /\ invocations' = [invocations EXCEPT ![Len(invocations)].outcome = message]
           /\ WorkflowCatch(thrown, evs2)
  /\ UNCHANGED <<steps, context, error, healedStep, stepExecutionId, proposals,
                 text, verdict, verdictV1, storeVars, faultVars>>

\* CompleteWorkflow with a logEvent that throws when the insert is refused:
\* the catch block of executeWorkflow marks the execution failed
CompleteWorkflow_logThrows ==
  /\ pc = "loop"
  /\ i >= Len(steps)
  /\ IF "info" \in refused
     THEN LET err == [name |-> "PostgrestError", message |-> "store write failed"]
          IN  /\ exec' = failExecution(completeExecution(exec, context), err)
              /\ events' = logEvent(events, failedEvent(err))
     ELSE /\ exec' = completeExecution(exec, context)
          /\ events' = logEvent(events, Event("info", None, None, None))
  /\ pc' = "done"
  /\ UNCHANGED <<steps, context, rows, i, error, healedStep, stepExecutionId,
                 invocations, proposals, propagated, text, verdict, verdictV1, storeVars, faultVars>>

\* the loop has run every step: mark the execution completed
CompleteWorkflow ==
  /\ pc = "loop"
  /\ i >= Len(steps)
  /\ exec' = completeExecution(exec, context)
  /\ events' = logEvent(events, Event("info", None, None, None))
  /\ pc' = "done"
  /\ UNCHANGED <<steps, context, rows, i, error, healedStep, stepExecutionId,
                 invocations, proposals, propagated, text, verdict, verdictV1, storeVars, faultVars>>

Next ==
  \/ PostExecute
  \/ StartWorkflow
  \/ RunStep
  \/ InvokerSucceeds
  \/ InvokerFails
  \/ ProposerReturns
  \/ RetrySucceeds
  \/ RetryFails
  \/ CompleteWorkflow

Spec == Init /\ [][Next]_vars

(***************************************************************************)
(* Execution Store faults: an update of the x_execution_logs row returns   *)
(* an error, which updateExecutionLog throws                               *)
(***************************************************************************)
\* the error object of a rejected update
StoreError == [name |-> "PostgrestError", message |-> "store write failed"]

\* catch block of executeWorkflow when its own update of the row is rejected:
\* updateExecutionLog throws out of the catch block, the error event is not
\* logged and executeWorkflow rejects (the route's callback logs that)
WorkflowCatchStoreFails(err, evs) ==
  /\ propagated' = err
  /\ exec' = exec
  /\ events' = evs
  /\ pc' = "done"
  /\ UNCHANGED i

\* executeWorkflow: the update to running is rejected
StartWorkflowStoreFails ==
  /\ pc = "scheduled"
  /\ context' = [current_step_index |-> 0, step_outputs |-> EmptyMap]
  /\ \E catchWrites \in BOOLEAN :
       IF catchWrites THEN WorkflowCatch(StoreError, events)
                      ELSE WorkflowCatchStoreFails(StoreError, events)
  /\ UNCHANGED <<steps, rows, error, healedStep, stepExecutionId,
                 invocations, proposals, text, verdict, verdictV1, storeVars, faultVars>>

\* loop body: the update of current_step_index is rejected
RunStepStoreFails ==
  /\ pc = "loop"
  /\ i < Len(steps)
  /\ context' = [context EXCEPT !.current_step_index = i]
  /\ \E catchWrites \in BOOLEAN :
       IF catchWrites THEN WorkflowCatch(StoreError, events)
                      ELSE WorkflowCatchStoreFails(StoreError, events)
  /\ UNCHANGED <<steps, rows, error, healedStep, stepExecutionId,
                 invocations, proposals, text, verdict, verdictV1, storeVars, faultVars>>

\* after the loop: the update to completed is rejected
CompleteWorkflowStoreFails ==
  /\ pc = "loop"
  /\ i >= Len(steps)
  /\ \E catchWrites \in BOOLEAN :
       IF catchWrites THEN WorkflowCatch(StoreError, events)
                      ELSE WorkflowCatchStoreFails(StoreError, events)
  /\ UNCHANGED <<steps, context, rows, error, healedStep, stepExecutionId,
                 invocations, proposals, text, verdict, verdictV1, storeVars, faultVars>>

\* the first invocation throws an error that is not healed, and the update
\* to failed in the catch block of executeWorkflow is rejected
InvokerFailsStoreFails ==
  /\ pc = "invoke"
  /\ \E message \in ErrorMessages :
       LET step == steps[i + 1]
           err == Failure(message)
           errorInfo == extractErrorDetails(err)
           evs1 == logEvent(events, Event("step_failed", step.id,
                                          context.current_step_index, errorInfo.message))
       IN  /\ giveUp(err)
           /\ rows' = updateStepExecution(rows, stepExecutionId,
                         [status |-> "failed", error_message |-> errorInfo.message])
           /\ invocations' = [invocations EXCEPT ![Len(invocations)].outcome = message]
           /\ error' = err
           /\ WorkflowCatchStoreFails(err, evs1)
  /\ UNCHANGED <<steps, context, healedStep, stepExecutionId, proposals,
                 text, verdict, verdictV1, storeVars, faultVars>>

NextFaults ==
  \/ Next
  \/ StartWorkflowStoreFails
  \/ RunStepStoreFails
  \/ CompleteWorkflowStoreFails
  \/ InvokerFailsStoreFails

SpecFaults == Init /\ [][NextFaults]_vars

(***************************************************************************)
(* step_executions faults: an insert or update of a StepExecution row      *)
(* returns an error, which createStepExecution / updateStepExecution throw *)
(***************************************************************************)
\* messages of rejected writes: one that matches no pattern of the
\* classifier, and one of the database that matches healable patterns
StoreErrorMessages == {StoreError.message, "invalid input syntax for type json"}

StoreFailure(message) == [name |-> "PostgrestError", message |-> message]

Fault(stepIndex, op) == [step_index |-> stepIndex, op |-> op]

\* catch block of executeStepWithHealing, entered with the error executeStep
\* threw and the events logged so far: rethrow to executeWorkflow, or log
\* the retry and call the Fix Proposer
HealOrRethrow(step, err, evs) ==
  LET errorInfo == extractErrorDetails(err)
  IN  IF giveUp(err)
      THEN /\ WorkflowCatch(err, evs)
           /\ UNCHANGED proposals
      ELSE /\ events' = logEvent(evs, Event("retry", step.id,
                             context.current_step_index, retryCount + 1))
           /\ proposals' = Append(proposals,
                             [step_index |-> context.current_step_index,
                              step_config |-> step.config,
                              error_message |-> errorInfo.message,
                              previous_outputs |-> context.step_outputs,
                              response |-> NoResponse])
           /\ pc' = "propose"
           /\ UNCHANGED <<exec, propagated, i>>

\* loop body: the insert of the StepExecution row is rejected, executeStep
\* throws before it calls the Action Invoker
RunStepCreateFails ==
  /\ pc = "loop"
  /\ i < Len(steps)
  /\ \E message \in StoreErrorMessages :
       LET step == steps[i + 1]
           err == StoreFailure(message)
           errorInfo == extractErrorDetails(err)
           exec1 == updateExecutionLog(exec, [current_step_index |-> i,
                                              current_step_id |-> step.id])
           evs1 == logEvent(events, Event("step_started", step.id, i, step.type))
       IN  /\ context' = [context EXCEPT !.current_step_index = i]
           /\ faults' = Append(faults, Fault(i, "create"))
           /\ error' = err
           /\ IF giveUp(err)
              THEN /\ propagated' = err
                   /\ exec' = failExecution(exec1, err)
                   /\ events' = logEvent(evs1, failedEvent(err))
                   /\ pc' = "done"
                   /\ UNCHANGED proposals
              ELSE /\ exec' = exec1
                   /\ events' = logEvent(evs1, Event("retry", step.id, i, retryCount + 1))
                   /\ proposals' = Append(proposals,
                                     [step_index |-> i,
                                      step_config |-> step.config,
                                      error_message |-> errorInfo.message,
                                      previous_outputs |-> context.step_outputs,
                                      response |-> NoResponse])
                   /\ pc' = "propose"
                   /\ UNCHANGED propagated
  /\ healedStep' = NoStep
  /\ UNCHANGED <<steps, rows, i, stepExecutionId, invocations,
                 text, verdict, verdictV1, storeVars, refused>>

\* the first invocation returns a result and the update to completed is
\* rejected: the catch block of executeStep logs step_failed, updates the row
\* to failed (that update goes through or is rejected as well) and rethrows
InvokerSucceedsUpdateFails ==
  /\ pc = "invoke"
  /\ \E message \in StoreErrorMessages, failedWritten \in BOOLEAN :
       LET step == steps[i + 1]
           err == StoreFailure(message)
           errorInfo == extractErrorDetails(err)
           evs1 == logEvent(events, Event("step_failed", step.id,
                                          context.current_step_index, errorInfo.message))
       IN  /\ invocations' = [invocations EXCEPT ![Len(invocations)].outcome = "ok"]
           /\ rows' = IF failedWritten
                      THEN updateStepExecution(rows, stepExecutionId,
                             [status |-> "failed", error_message |-> errorInfo.message])
                      ELSE rows
           /\ faults' = Append(faults, Fault(context.current_step_index, "completed"))
           /\ error' = err
           /\ HealOrRethrow(step, err, evs1)
  /\ UNCHANGED <<steps, context, healedStep, stepExecutionId,
                 text, verdict, verdictV1, storeVars, refused>>

\* the first invocation throws and the update to failed in the catch block
\* of executeStep is rejected: the row stays running and what executeStep
\* throws is the error of the store
InvokerFailsUpdateFails ==
  /\ pc = "invoke"
  /\ \E thrownMessage \in ErrorMessages, message \in StoreErrorMessages :
       LET step == steps[i + 1]
           errorInfo == extractErrorDetails(Failure(thrownMessage))
           err == StoreFailure(message)
           evs1 == logEvent(events, Event("step_failed", step.id,
                                          context.current_step_index, errorInfo.message))
       IN  /\ invocations' = [invocations EXCEPT ![Len(invocations)].outcome = thrownMessage]
           /\ faults' = Append(faults, Fault(context.current_step_index, "failed"))
           /\ error' = err
           /\ HealOrRethrow(step, err, evs1)
  /\ UNCHANGED <<steps, context, rows, healedStep, stepExecutionId,
                 text, verdict, verdictV1, storeVars, refused>>

\* the healed retry returns a result and the update that marks the newest
\* row of the step healed is rejected: the catch block of
\* executeStepWithHealing logs it and rethrows the original error
RetrySucceedsUpdateFails ==
  /\ pc = "reinvoke"
  /\ \E message \in StoreErrorMessages :
       LET step == steps[i + 1]
           result == simulateToolExecution(healedStep)
           healingError == StoreFailure(message)
           thrown == rethrown(error, healingError)
           evs1 == logEvent(events, Event("step_completed", healedStep.id,
                                          context.current_step_index, None))
           evs2 == logEvent(evs1, Event("error", step.id,
                                        context.current_step_index, healingError.message))
       IN  /\ rows' = updateStepExecution(rows, stepExecutionId,
                         [status |-> "completed", output_data |-> result,
                          completed_at |-> TRUE])
           /\ invocations' = [invocations EXCEPT ![Len(invocations)].outcome = "ok"]
           /\ faults' = Append(faults, Fault(context.current_step_index, "healed"))
           /\ WorkflowCatch(thrown, evs2)
  /\ UNCHANGED <<steps, context, error, healedStep, stepExecutionId, proposals,
                 text, verdict, verdictV1, storeVars, refused>>

NextStepFaults ==
  \/ Next
  \/ RunStepCreateFails
  \/ InvokerSucceedsUpdateFails
  \/ InvokerFailsUpdateFails
  \/ RetrySucceedsUpdateFails

SpecStepFaults == Init /\ [][NextStepFaults]_vars

(***************************************************************************)
(* Refused execution_events inserts: logEvent prints the error the insert  *)
(* returns and goes on.  The store refuses the inserts of one event type,  *)
(* of every type, or of none                                               *)
(***************************************************************************)
EventTypes ==
  {"step_started", "step_completed", "step_failed", "retry", "self_healing",
   "error", "info"}

LossyInit ==
  /\ steps = <<>>
  /\ exec = NoExecution
  /\ context = [current_step_index |-> 0, step_outputs |-> EmptyMap]
  /\ rows = <<>>
  /\ events = <<>>
  /\ pc = "idle"
  /\ i = 0
  /\ error = NoError
  /\ healedStep = NoStep
  /\ stepExecutionId = 0
  /\ invocations = <<>>
  /\ proposals = <<>>
  /\ propagated = NoError
  /\ text = <<>>
  /\ verdict = None
  /\ verdictV1 = None
  /\ workflow \in StoredWorkflows
  /\ workflowsRow = NoWorkflow
  /\ requests = [c \in Clients |-> NoRequest]
  /\ responses = <<>>
  /\ refused \in {{}, EventTypes} \cup {{t} : t \in EventTypes}
  /\ faults = <<>>

SpecLossy == LossyInit /\ [][Next]_vars

(***************************************************************************)
(* Cancellation: the status column admits cancelled; no route writes it,   *)
(* the signal is a write to the row from outside the orchestrator          *)
(***************************************************************************)
Cancel ==
  /\ exec.status = "running"
  /\ exec' = updateExecutionLog(exec, [status |-> "cancelled"])
  /\ UNCHANGED <<steps, context, rows, events, pc, i, error, healedStep,
                 stepExecutionId, invocations, proposals, propagated,
                 text, verdict, verdictV1, storeVars, faultVars>>

NextCancel == Next \/ Cancel

SpecCancel == Init /\ [][NextCancel]_vars

(***************************************************************************)
(* The workflow routes: GET, PUT and DELETE /api/orchestrator/[id] address *)
(* table workflows; POST .../modify and POST /api/execute/[id] address     *)
(* table x_workflows.  A route is split where it awaits the store between  *)
(* its fetch and its write, so that requests of two clients interleave     *)
(***************************************************************************)
MaxRequests == 3

Routes == {"GET", "PUT", "DELETE", "modify", "execute"}

\* a request body without a version field
NoVersion == 0

\* steps arrays sent as the body of PUT
EditedSteps == {w \in Workflows : Len(w) = 1 /\ w[1].type = "end"}

\* modifyWorkflow results: with a steps array, or without one
ModifiedWorkflows ==
  [hasSteps : {TRUE}, steps : EditedSteps] \cup [hasSteps : {FALSE}, steps : {<<>>}]

SuppliedVersions(route) ==
  IF route = "modify" THEN 1..MaxRequests ELSE {NoVersion}

BodySteps(route) == IF route = "PUT" THEN EditedSteps ELSE {<<>>}

InFlight == {c \in Clients : requests[c] # NoRequest}

\* a DELETE has answered with success
Deleted == \E n \in 1..Len(responses) :
  responses[n].route = "DELETE" /\ responses[n].status = 200

\* the response of a request: stored is the version the addressed row had when
\* the route answered, version the version the response reports, changed
\* whether the route wrote to the store
Response(req, status, stored, version, changed) ==
  [route |-> req.route, user |-> req.user, status |-> status,
   supplied |-> req.supplied, stored |-> stored, version |-> version,
   afterDelete |-> req.afterDelete, changed |-> changed]

Respond(c, response) ==
  /\ responses' = Append(responses, response)
  /\ requests' = [requests EXCEPT ![c] = NoRequest]

Proceed(c, row) ==
  /\ requests' = [requests EXCEPT ![c].fetched = row, ![c].stage = "write"]
  /\ UNCHANGED responses

EditInit ==
  /\ steps = <<>>
  /\ exec = NoExecution
  /\ context = [current_step_index |-> 0, step_outputs |-> EmptyMap]
  /\ rows = <<>>
  /\ events = <<>>
  /\ pc = "idle"
  /\ i = 0
  /\ error = NoError
  /\ healedStep = NoStep
  /\ stepExecutionId = 0
  /\ invocations = <<>>
  /\ proposals = <<>>
  /\ propagated = NoError
  /\ text = <<>>
  /\ verdict = None
  /\ verdictV1 = None
  /\ workflow \in {w \in StoredWorkflows : Len(w.steps) = 1}
  /\ workflowsRow = workflow
  /\ requests = [c \in Clients |-> NoRequest]
  /\ responses = <<>>
  /\ refused = {}
  /\ faults = <<>>

\* a request arrives: the user is extracted and the body validated
BeginRequest(c) ==
  /\ requests[c] = NoRequest
  /\ Len(responses) + Cardinality(InFlight) < MaxRequests
  /\ \E route \in Routes, user \in Users :
       \E supplied \in SuppliedVersions(route), newSteps \in BodySteps(route) :
         /\ route = "execute" =>
              /\ pc = "idle"
              /\ \A d \in Clients : requests[d].route # "execute"
         /\ requests' = [requests EXCEPT ![c] =
              [route |-> route, user |-> user, supplied |-> supplied,
               newSteps |-> newSteps, fetched |-> NoWorkflow,
               afterDelete |-> Deleted, stage |-> "fetch"]]
  /\ UNCHANGED <<execVars, faultVars, text, verdict, verdictV1, workflow, workflowsRow, responses>>

\* GET /api/orchestrator/[id]
GetWorkflow(c) ==
  LET req == requests[c]
      row == workflowsRow
  IN  /\ req.route = "GET" /\ req.stage = "fetch"
      /\ IF row = NoWorkflow \/ row.is_deleted
         THEN Respond(c, Response(req, 404, row.version, NoVersion, FALSE))
         ELSE IF row.user_id # req.user
         THEN Respond(c, Response(req, 403, row.version, NoVersion, FALSE))
         ELSE Respond(c, Response(req, 200, row.version, row.version, FALSE))
      /\ UNCHANGED <<execVars, faultVars, text, verdict, verdictV1, workflow, workflowsRow>>

\* PUT /api/orchestrator/[id], up to the update
PutFetch(c) ==
  LET req == requests[c]
      existingWorkflow == workflowsRow
  IN  /\ req.route = "PUT" /\ req.stage = "fetch"
      /\ IF existingWorkflow = NoWorkflow \/ existingWorkflow.is_deleted
         THEN Respond(c, Response(req, 404, existingWorkflow.version, NoVersion, FALSE))
         ELSE IF existingWorkflow.user_id # req.user
         THEN Respond(c, Response(req, 403, existingWorkflow.version, NoVersion, FALSE))
         ELSE Proceed(c, existingWorkflow)
      /\ UNCHANGED <<execVars, faultVars, text, verdict, verdictV1, workflow, workflowsRow>>

\* PUT /api/orchestrator/[id]: the update and the response
PutUpdate(c) ==
  LET req == requests[c]
      newVersion == req.fetched.version + 1
  IN  /\ req.route = "PUT" /\ req.stage = "write"
      /\ workflowsRow' = [workflowsRow EXCEPT !.steps = req.newSteps,
                                               !.version = newVersion]
      /\ Respond(c, Response(req, 200, workflowsRow.version, newVersion, TRUE))
      /\ UNCHANGED <<execVars, faultVars, text, verdict, verdictV1, workflow>>

\* DELETE /api/orchestrator/[id], up to the update
DeleteFetch(c) ==
  LET req == requests[c]
      existingWorkflow == workflowsRow
  IN  /\ req.route = "DELETE" /\ req.stage = "fetch"
      /\ IF existingWorkflow = NoWorkflow \/ existingWorkflow.is_deleted
         THEN Respond(c, Response(req, 404, existingWorkflow.version, NoVersion, FALSE))
         ELSE IF existingWorkflow.user_id # req.user
         THEN Respond(c, Response(req, 403, existingWorkflow.version, NoVersion, FALSE))
         ELSE Proceed(c, existingWorkflow)
      /\ UNCHANGED <<execVars, faultVars, text, verdict, verdictV1, workflow, workflowsRow>>

\* DELETE /api/orchestrator/[id]: the soft delete and the response
DeleteUpdate(c) ==
  LET req == requests[c]
  IN  /\ req.route = "DELETE" /\ req.stage = "write"
      /\ workflowsRow' = [workflowsRow EXCEPT !.is_deleted = TRUE]
      /\ Respond(c, Response(req, 200, workflowsRow.version, NoVersion, TRUE))
      /\ UNCHANGED <<execVars, faultVars, text, verdict, verdictV1, workflow>>

\* POST /api/orchestrator/[id]/modify, up to the call of modifyWorkflow
ModifyFetch(c) ==
  LET req == requests[c]
      existingWorkflow == workflow
  IN  /\ req.route = "modify" /\ req.stage = "fetch"
      /\ IF existingWorkflow = NoWorkflow \/ existingWorkflow.is_deleted
         THEN Respond(c, Response(req, 404, existingWorkflow.version, NoVersion, FALSE))
         ELSE IF existingWorkflow.user_id # req.user
         THEN Respond(c, Response(req, 403, existingWorkflow.version, NoVersion, FALSE))
         ELSE IF existingWorkflow.version # req.supplied
         THEN Respond(c, Response(req, 409, existingWorkflow.version,
                                  existingWorkflow.version, FALSE))
         ELSE Proceed(c, existingWorkflow)
      /\ UNCHANGED <<execVars, faultVars, text, verdict, verdictV1, workflow, workflowsRow>>

\* POST /api/orchestrator/[id]/modify: modifyWorkflow returns or throws, then
\* the update and the response
ModifyUpdate(c) ==
  LET req == requests[c]
      existingWorkflow == req.fetched
      newVersion == existingWorkflow.version + 1
  IN  /\ req.route = "modify" /\ req.stage = "write"
      /\ \/ /\ Respond(c, Response(req, 500, workflow.version, NoVersion, FALSE))
            /\ UNCHANGED workflow
         \/ \E modifiedWorkflowData \in ModifiedWorkflows :
              /\ workflow' = [workflow EXCEPT
                     !.steps = IF modifiedWorkflowData.hasSteps
                               THEN modifiedWorkflowData.steps
                               ELSE existingWorkflow.steps,
                     !.version = newVersion]
              /\ Respond(c, Response(req, 200, workflow.version, newVersion, TRUE))
      /\ UNCHANGED <<execVars, faultVars, text, verdict, verdictV1, workflowsRow>>

\* POST /api/execute/[id], up to the insert of the execution
ExecuteFetch(c) ==
  LET req == requests[c]
  IN  /\ req.route = "execute" /\ req.stage = "fetch"
      /\ IF workflow # NoWorkflow /\ executeFinds(workflow, req.user)
         THEN Proceed(c, workflow)
         ELSE Respond(c, Response(req, 404, workflow.version, NoVersion, FALSE))
      /\ UNCHANGED <<execVars, faultVars, text, verdict, verdictV1, workflow, workflowsRow>>

\* ExecuteInsert reading the workflow again when it schedules executeWorkflow
ExecuteInsert_readsAgain(c) ==
  LET req == requests[c]
  IN  /\ req.route = "execute" /\ req.stage = "write"
      /\ pc = "idle"
      /\ steps' = workflow.steps
      /\ exec' = [NoExecution EXCEPT !.status = "pending"]
      /\ pc' = "scheduled"
      /\ Respond(c, Response(req, 202, workflow.version, NoVersion, TRUE))
      /\ UNCHANGED <<context, rows, events, i, error, healedStep, stepExecutionId,
                     invocations, proposals, propagated, text, verdict, verdictV1,
                     workflow, workflowsRow, faultVars>>

\* POST /api/execute/[id]: the execution is inserted as pending and
\* executeWorkflow is scheduled with the steps that were fetched
ExecuteInsert(c) ==
  LET req == requests[c]
  IN  /\ req.route = "execute" /\ req.stage = "write"
      /\ pc = "idle"
      /\ steps' = req.fetched.steps
      /\ exec' = [NoExecution EXCEPT !.status = "pending"]
      /\ pc' = "scheduled"
      /\ Respond(c, Response(req, 202, workflow.version, NoVersion, TRUE))
      /\ UNCHANGED <<context, rows, events, i, error, healedStep, stepExecutionId,
                     invocations, proposals, propagated, text, verdict, verdictV1,
                     workflow, workflowsRow, faultVars>>

NextEdit ==
  \E c \in Clients :
    \/ BeginRequest(c)
    \/ GetWorkflow(c)
    \/ PutFetch(c)
    \/ PutUpdate(c)
    \/ DeleteFetch(c)
    \/ DeleteUpdate(c)
    \/ ModifyFetch(c)
    \/ ModifyUpdate(c)
    \/ ExecuteFetch(c)
    \/ ExecuteInsert(c)

SpecEdit == EditInit /\ [][NextEdit]_vars

(***************************************************************************)
(* An execution together with requests on its workflow: the routes run     *)
(* while executeWorkflow runs                                              *)
(***************************************************************************)
MaxRunRequests == 2

RunEditInit ==
  /\ steps = <<>>
  /\ exec = NoExecution
  /\ context = [current_step_index |-> 0, step_outputs |-> EmptyMap]
  /\ rows = <<>>
  /\ events = <<>>
  /\ pc = "idle"
  /\ i = 0
  /\ error = NoError
  /\ healedStep = NoStep
  /\ stepExecutionId = 0
  /\ invocations = <<>>
  /\ proposals = <<>>
  /\ propagated = NoError
  /\ text = <<>>
  /\ verdict = None
  /\ verdictV1 = None
  /\ workflow \in {w \in StoredWorkflows :
                    Len(w.steps) = 2 /\ w.steps[1].id = "step_1"}
  /\ workflowsRow = workflow
  /\ requests = [c \in Clients |-> NoRequest]
  /\ responses = <<>>
  /\ refused = {}
  /\ faults = <<>>

\* the routes that start an execution or write the workflow
RunRoutes == {"PUT", "DELETE", "modify", "execute"}

\* a request of the owner arrives; a modify request carries the version the
\* x_workflows row has at that moment
BeginRunRequest(c) ==
  /\ requests[c] = NoRequest
  /\ Len(responses) + Cardinality(InFlight) < MaxRunRequests
  /\ \E route \in RunRoutes : \E newSteps \in BodySteps(route) :
       /\ route = "execute" =>
            /\ pc = "idle"
            /\ \A d \in Clients : requests[d].route # "execute"
       /\ requests' = [requests EXCEPT ![c] =
            [route |-> route, user |-> workflow.user_id,
             supplied |-> IF route = "modify" THEN workflow.version ELSE NoVersion,
             newSteps |-> newSteps, fetched |-> NoWorkflow,
             afterDelete |-> Deleted, stage |-> "fetch"]]
  /\ UNCHANGED <<execVars, faultVars, text, verdict, verdictV1, workflow, workflowsRow,
                 responses>>

NextRunEdit ==
  \/ StartWorkflow
  \/ RunStep
  \/ InvokerSucceeds
  \/ InvokerFails
  \/ ProposerReturns
  \/ RetrySucceeds
  \/ RetryFails
  \/ CompleteWorkflow
  \/ \E c \in Clients :
       \/ BeginRunRequest(c)
       \/ PutFetch(c)
       \/ PutUpdate(c)
       \/ DeleteFetch(c)
       \/ DeleteUpdate(c)
       \/ ModifyFetch(c)
       \/ ModifyUpdate(c)
       \/ ExecuteFetch(c)
       \/ ExecuteInsert(c)

SpecRunEdit == RunEditInit /\ [][NextRunEdit]_vars

(***************************************************************************)
(* The classifier on its own: every text of Texts is classified            *)
(***************************************************************************)
ClassifyInit ==
  /\ steps = <<>>
  /\ exec = NoExecution
  /\ context = [current_step_index |-> 0, step_outputs |-> EmptyMap]
  /\ rows = <<>>
  /\ events = <<>>
  /\ pc = "classify"
  /\ i = 0
  /\ error = NoError
  /\ healedStep = NoStep
  /\ stepExecutionId = 0
  /\ invocations = <<>>
  /\ proposals = <<>>
  /\ propagated = NoError
  /\ text \in Texts
  /\ verdict = None
  /\ verdictV1 = None
  /\ workflow = NoWorkflow
  /\ workflowsRow = NoWorkflow
  /\ requests = [c \in Clients |-> NoRequest]
  /\ responses = <<>>
  /\ refused = {}
  /\ faults = <<>>

Classify ==
  /\ pc = "classify"
  /\ verdict = None
  /\ verdict' = IF isErrorHealable([message |-> Concat(text)])
                THEN "healable" ELSE "permanent"
  /\ verdictV1' = IF isErrorHealableV1([message |-> Concat(text)])
                  THEN "healable" ELSE "permanent"
  /\ UNCHANGED <<execVars, text, storeVars, faultVars>>

ClassifyNext == Classify

SpecClassify == ClassifyInit /\ [][ClassifyNext]_vars

(***************************************************************************)
(* Properties                                                              *)
(***************************************************************************)
IsPrefix(p, t) == Len(p) <= Len(t) /\ \A k \in 1..Len(p) : p[k] = t[k]

RECURSIVE Occurs(_, _)
Occurs(p, t) == IsPrefix(p, t) \/ (t # <<>> /\ Occurs(p, Tail(t)))

\* the lower-cased text contains one of the patterns
ContainsAny(patterns, t) ==
  LET lowered == [k \in 1..Len(t) |-> LowerChar(t[k])]
  IN  \E p \in patterns : Occurs(CharsOf(p), lowered)

\* C1: a classified text is healable exactly when its lower-cased form
\* contains no permanent pattern and at least one healable pattern (for both
\* revisions of the classifier, each with its own pattern lists); a text with
\* a permanent and a healable pattern is permanent, and so is a text with no
\* pattern at all.
C1_ClassifierPrecedence ==
  verdict # None =>
    /\ verdict \in {"healable", "permanent"}
    /\ (verdict = "healable") <=>
         (/\ ~ContainsAny(permanentPatterns, Concat(text))
          /\ ContainsAny(healablePatterns, Concat(text)))
    /\ (verdictV1 = "healable") <=>
         (/\ ~ContainsAny(permanentPatternsV1, Concat(text))
          /\ ContainsAny(healablePatternsV1, Concat(text)))
    /\ (text = <<"Unauthorized", ": ", "invalid">> => verdict = "permanent")
    /\ (text = <<"timeout">> => verdict = "permanent")

C1_Witness ==
  /\ text = <<"Unauthorized", ": ", "invalid">>
  /\ verdict = "permanent"
  /\ verdictV1 = "permanent"

\* calls of the Action Invoker and of the Fix Proposer for step index k
InvocationsOf(k) == {n \in DOMAIN invocations : invocations[n].step_index = k}

ProposalsOf(k) == {n \in DOMAIN proposals : proposals[n].step_index = k}

FirstInvocation(k) == CHOOSE n \in InvocationsOf(k) : \A m \in InvocationsOf(k) : n <= m

LastInvocation(k) == CHOOSE n \in InvocationsOf(k) : \A m \in InvocationsOf(k) : m <= n

IsFailure(outcome) == outcome \notin {"ok", "pending"}

\* the message of the original failure of step index k
OriginalFailure(k) == invocations[FirstInvocation(k)].outcome

\* step index k has ended failed: its last invocation failed and
\* executeStepWithHealing is not waiting for the Fix Proposer
TerminalFailed(k) ==
  /\ InvocationsOf(k) # {}
  /\ IsFailure(invocations[LastInvocation(k)].outcome)
  /\ ~(pc = "propose" /\ i = k)

\* the newest step_executions row of step index k (0 if none)
LatestRow(k) ==
  LET matching == {n \in DOMAIN rows : rows[n].step_index = k}
  IN  IF matching = {} THEN 0
      ELSE CHOOSE n \in matching : \A m \in matching : m <= n

\* C2: for every step the Action Invoker is called at most twice and the Fix
\* Proposer at most once.
C2_HealBudget ==
  \A k \in StepIndexes :
    /\ Cardinality(InvocationsOf(k)) <= 2
    /\ Cardinality(ProposalsOf(k)) <= 1

C2_Witness ==
  /\ pc = "done"
  /\ \E k \in StepIndexes :
       /\ Cardinality(InvocationsOf(k)) = 2
       /\ \A n \in InvocationsOf(k) : IsFailure(invocations[n].outcome)
       /\ Cardinality(ProposalsOf(k)) = 1

PermanentMessage(message) ==
  \/ ContainsAny(permanentPatterns, CharsOf(message))
  \/ ~ContainsAny(healablePatterns, CharsOf(message))

HealedRetry(k) ==
  /\ Cardinality(InvocationsOf(k)) = 2
  /\ IsFailure(OriginalFailure(k))
  /\ invocations[LastInvocation(k)].outcome = "ok"

C7_HealedStepHasOneRow ==
  \A n \in DOMAIN rows :
    rows[n].status = "healed" =>
      Cardinality({m \in DOMAIN rows : rows[m].step_index = rows[n].step_index}) = 1

\* C8: a step whose original invocation and healed retry both fail ends with
\* its StepExecution failed and retry_count = 1.
C8_FailedTwiceRetryCount ==
  \A k \in StepIndexes :
    (/\ Cardinality(InvocationsOf(k)) = 2
     /\ \A n \in InvocationsOf(k) : IsFailure(invocations[n].outcome)) =>
       /\ rows[LatestRow(k)].status = "failed"
       /\ rows[LatestRow(k)].retry_count = 1

DerivedStepsMatch ==
  \A n \in DOMAIN invocations :
    LET c == invocations[n]
        original == steps[c.step_index + 1]
    IN  /\ c.step.id = original.id
        /\ c.step.type = original.type
        /\ c.step.tool = original.tool
        /\ c.step.position = original.position
        /\ c.step.next = original.next
        /\ n = FirstInvocation(c.step_index) => c.step = original
        /\ n # FirstInvocation(c.step_index) =>
             /\ ProposalsOf(c.step_index) # {}
             /\ \A q \in ProposalsOf(c.step_index) :
                  c.step.config = proposals[q].response.fixed_config
             /\ rows[LatestRow(c.step_index)].step_id = original.id
             /\ rows[LatestRow(c.step_index)].step_type = original.type
             /\ rows[LatestRow(c.step_index)].tool_name = original.tool

EventTypesOf(k) ==
  LET ofStep(e) == e.step_id # None /\ e.step_index = k
      own == SelectSeq(events, ofStep)
  IN  [n \in 1..Len(own) |-> own[n].event_type]

\* the four types occur in seq in this order
InOrder(seq, a, b, c, d) ==
  \E n1, n2, n3, n4 \in DOMAIN seq :
    /\ n1 < n2 /\ n2 < n3 /\ n3 < n4
    /\ seq[n1] = a /\ seq[n2] = b /\ seq[n3] = c /\ seq[n4] = d

C20_SequentialSteps ==
  /\ \A n \in DOMAIN invocations :
       /\ invocations[n].outcome = "pending" => n = Len(invocations)
       /\ invocations[n].step.id = steps[invocations[n].step_index + 1].id
       /\ \A m \in DOMAIN invocations :
            m < n => invocations[m].step_index <= invocations[n].step_index
  /\ \A k \in StepIndexes :
       (k > 0 /\ InvocationsOf(k) # {}) =>
         /\ InvocationsOf(k - 1) # {}
         /\ invocations[LastInvocation(k - 1)].outcome = "ok"
         /\ LastInvocation(k - 1) < FirstInvocation(k)
         /\ rows[LatestRow(k - 1)].status \in {"completed", "healed"}

C20_Witness ==
  /\ pc = "invoke"
  /\ i = 1
  /\ HealedRetry(0)
  /\ invocations[Len(invocations)].outcome = "pending"
  /\ invocations[Len(invocations)].step_index = 1


TerminalStatuses == {"completed", "failed", "cancelled"}

\* the status moves the lifecycle allows
LifecycleMoves ==
  {<<None, "pending">>, <<"pending", "running">>} \cup
  {<<"running", t>> : t \in TerminalStatuses}

\* C15: the status of an execution only moves pending -> running -> one of
\* completed, failed, cancelled, and once it is terminal no step changes its
\* status, current_step_index, error_message, output_result or completed_at.
C15_TerminalIsFinal ==
  [][/\ exec'.status # exec.status =>
          <<exec.status, exec'.status>> \in LifecycleMoves
     /\ exec.status \in TerminalStatuses =>
          /\ exec'.status = exec.status
          /\ exec'.current_step_index = exec.current_step_index
          /\ exec'.error_message = exec.error_message
          /\ exec'.output_result = exec.output_result
          /\ exec'.completed_at = exec.completed_at]_vars

\* C16: once the execution is cancelled while executeWorkflow is running, no
\* further step is invoked and the status stays cancelled: it is never
\* overwritten with completed or failed.
C16_CancelStops ==
  [][exec.status = "cancelled" =>
       /\ exec'.status = "cancelled"
       /\ Len(invocations') = Len(invocations)
       /\ (\A n \in 1..Len(invocations) :
             invocations[n].outcome # "pending" => invocations'[n] = invocations[n])]_vars


\* C13: every execution that executeWorkflow starts reaches a terminal
\* status; whatever exception leaves the step loop, once executeWorkflow has
\* returned the execution is not left running or pending.
C13_NeverLeftRunning ==
  pc = "done" => exec.status \in TerminalStatuses


EditRoutes == {"PUT", "modify"}

\* the positions in responses of the accepted requests of a route
Accepted(route) ==
  {n \in 1..Len(responses) :
     responses[n].route = route /\ responses[n].status = 200}

\* C17: every structural edit (PUT, modify) carries the version its writer
\* read; an edit whose supplied version differs from the stored version is
\* rejected with a version conflict and changes neither steps nor version.
C17_StaleEditRejected ==
  \A n \in 1..Len(responses) :
    LET r == responses[n]
    IN  (r.route \in EditRoutes /\ r.status \notin {403, 404, 500}) =>
          /\ r.supplied # NoVersion
          /\ r.supplied # r.stored => (r.status = 409 /\ ~r.changed)

\* C18: a workflow's version never decreases and every accepted edit raises
\* it by exactly one: after n accepted edits of a row, in any interleaving,
\* its version is the initial version + n, and the accepted edits report
\* pairwise distinct versions.
C18_VersionCountsEdits ==
  /\ [](/\ workflowsRow # NoWorkflow =>
              workflowsRow.version = 1 + Cardinality(Accepted("PUT"))
         /\ workflow.version = 1 + Cardinality(Accepted("modify"))
         /\ \A route \in EditRoutes : \A m, n \in Accepted(route) :
              m # n => responses[m].version # responses[n].version)
  /\ [][/\ workflow'.version >= workflow.version
        /\ workflowsRow'.version >= workflowsRow.version]_vars

StepIdsBelow(k) == {steps[j].id : j \in 1..k}

\* the result the last invocation of step index k returned
LastResult(k) == simulateToolExecution(invocations[LastInvocation(k)].step)

C22_SelfHealingMeansHealed ==
  pc = "done" =>
    \A k \in StepIndexes :
      (\E n \in 1..Len(EventTypesOf(k)) : EventTypesOf(k)[n] = "self_healing") =>
        /\ HealedRetry(k)
        /\ rows[LatestRow(k)].status = "healed"
        /\ ~TerminalFailed(k)

\* the Fix Proposer's answer to the proposal for step index k
ResponseFor(k) == proposals[CHOOSE n \in ProposalsOf(k) : TRUE].response

\* C23: a healed retry is performed only when the decoded result has a
\* fixed_config, a reasoning and a numeric confidence above 0.1 and at most
\* 1; with a confidence that is absent, not a number or outside [0,1] the
\* step is not invoked a second time.
C23_RetryNeedsValidConfidence ==
  \A k \in StepIndexes :
    Cardinality(InvocationsOf(k)) > 1 =>
      /\ ProposalsOf(k) # {}
      /\ ResponseFor(k).kind = "json"
      /\ ResponseFor(k).fixed_config # None
      /\ ResponseFor(k).reasoning # None
      /\ ResponseFor(k).confidence.num
      /\ ResponseFor(k).confidence.value > 10
      /\ ResponseFor(k).confidence.value <= 100


\* C24: a fault of the orchestrator itself (a rejected insert or update of a
\* StepExecution row) is always fatal: it is never classified and handed to
\* the Fix Proposer as if it were a step failure, the step is not invoked
\* again after it, the execution ends failed and the run ends with an error
\* event.
C24_FaultIsFatal ==
  /\ \A n \in DOMAIN proposals :
       proposals[n].error_message \notin StoreErrorMessages
  /\ faults # <<>> =>
       /\ pc = "done"
       /\ exec.status = "failed"
       /\ events # <<>>
       /\ events[Len(events)].event_type = "error"

\* C28: once an Action Invoker call for a step has returned a result, the
\* invoker is not called again for that step and the result is in
\* step_outputs, also when the write that records the StepExecution as
\* completed or healed is rejected.
C28_SuccessNotRepeated ==
  \A n \in DOMAIN invocations :
    invocations[n].outcome = "ok" =>
      LET k == invocations[n].step_index
      IN  /\ n = LastInvocation(k)
          /\ steps[k + 1].id \in DOMAIN context.step_outputs
          /\ context.step_outputs[steps[k + 1].id] = LastResult(k)


\* the version an accepted edit had read: it reports that version + 1
VersionRead(n) == responses[n].version - 1

\* C25: of the writers that read the same version v of a workflow and edit
\* it concurrently (modify or PUT, in any interleaving of their read, check
\* and update steps), at most one is accepted, and an edit is accepted only
\* while the stored version is still the one its writer read, so that no
\* accepted edit is overwritten.
C25_OneWriterPerVersion ==
  \A route \in EditRoutes :
    \A m, n \in Accepted(route) :
      /\ responses[n].stored = VersionRead(n)
      /\ (m # n) => VersionRead(m) # VersionRead(n)

\* the step of the run that an invocation was made for
SameStep(invoked, step) ==
  invoked.id = step.id /\ invoked.type = step.type /\ invoked.tool = step.tool

\* C26: an execution runs the step sequence the execute request read: the
\* request hands over the steps it fetched, they stay the same for the whole
\* run whatever is written to the workflow meanwhile, every invocation is for
\* the step at its index in that sequence, in order, and no step of the
\* execution writes the workflow
C26_RunsStepsAsRead ==
  /\ [](/\ \A n \in DOMAIN invocations :
            /\ invocations[n].step_index < Len(steps)
            /\ SameStep(invocations[n].step, steps[invocations[n].step_index + 1])
        /\ \A m, n \in DOMAIN invocations :
            m <= n => invocations[m].step_index <= invocations[n].step_index
        /\ exec.status = "completed" =>
            {invocations[n].step_index : n \in DOMAIN invocations} = 0..(Len(steps) - 1))
  /\ [][/\ pc # "idle" => steps' = steps
        /\ \A c \in Clients :
            (requests[c].route = "execute" /\ requests[c].stage = "fetch"
               /\ requests'[c].stage = "write") => requests'[c].fetched = workflow
        /\ (pc = "idle" /\ pc' # "idle") =>
            \E c \in Clients : /\ requests[c].route = "execute"
                               /\ requests[c].stage = "write"
                               /\ steps' = requests[c].fetched.steps
        /\ <<workflow, workflowsRow>>' # <<workflow, workflowsRow>> =>
            UNCHANGED execVars
        /\ execVars' # execVars => UNCHANGED <<workflow, workflowsRow>>]_vars

\* the second step of a run is being invoked after a modify request, answered
\* after the execute request, replaced the steps of the workflow
C26_Witness ==
  /\ pc = "invoke"
  /\ i = 1
  /\ workflow.steps # steps
  /\ \E m, n \in DOMAIN responses :
       /\ m < n
       /\ responses[m].route = "execute" /\ responses[m].status = 202
       /\ responses[n].route = "modify" /\ responses[n].status = 200

StepStarted == SelectSeq(events, LAMBDA e : e.event_type = "step_started")

\* the persisted current_step_index is the index of the step being run or
\* last attempted, and of the step whose failure a failed Execution reports
IndexTracksRun ==
  /\ \A n \in DOMAIN StepStarted :
       StepStarted[n].step_index <= exec.current_step_index
  /\ StepStarted # <<>> =>
       StepStarted[Len(StepStarted)].step_index = exec.current_step_index
  /\ invocations # <<>> =>
       invocations[Len(invocations)].step_index = exec.current_step_index
  /\ exec.status = "failed" =>
       /\ TerminalFailed(exec.current_step_index)
       /\ exec.error_message = OriginalFailure(exec.current_step_index)

IndexNeverDecreases ==
  [][exec'.current_step_index >= exec.current_step_index]_vars

StatusFor(n) ==
  LET call == invocations[n]
  IN  IF call.outcome = "pending" THEN "running"
      ELSE IF IsFailure(call.outcome) THEN "failed"
      ELSE IF n = FirstInvocation(call.step_index) THEN "completed"
      ELSE "healed"

\* the outcome of a run as a function of what the Action Invoker and the Fix
\* Proposer returned: the StepExecution statuses, the calls made, step_outputs
\* and the status of the Execution
OutcomeOfInputs ==
  /\ Len(rows) = Len(invocations)
  /\ \A n \in DOMAIN invocations :
       /\ rows[n].step_index = invocations[n].step_index
       /\ rows[n].status = StatusFor(n)
  /\ \A k \in StepIndexes :
       /\ Cardinality(InvocationsOf(k)) <= 2
       /\ Cardinality(ProposalsOf(k)) <= 1
       /\ ProposalsOf(k) # {} <=>
            /\ InvocationsOf(k) # {}
            /\ IsFailure(OriginalFailure(k))
            /\ ~giveUp(Failure(OriginalFailure(k)))
       /\ Cardinality(InvocationsOf(k)) = 2 <=>
            \E p \in ProposalsOf(k) :
              /\ proposals[p].response # NoResponse
              /\ attemptSelfHealing(proposals[p].response).ok
       /\ k < Len(steps) =>
            /\ steps[k + 1].id \in DOMAIN context.step_outputs <=>
                 (InvocationsOf(k) # {} /\ invocations[LastInvocation(k)].outcome = "ok")
            /\ steps[k + 1].id \in DOMAIN context.step_outputs =>
                 context.step_outputs[steps[k + 1].id] = LastResult(k)
  /\ exec.status = "failed" <=>
       /\ pc = "done"
       /\ \E k \in StepIndexes :
            \/ TerminalFailed(k)
            \/ \E p \in ProposalsOf(k) :
                 /\ proposals[p].response # NoResponse
                 /\ ~attemptSelfHealing(proposals[p].response).ok
  /\ exec.status = "completed" <=>
       /\ pc = "done"
       /\ \A k \in 0..(Len(steps) - 1) :
            InvocationsOf(k) # {} /\ invocations[LastInvocation(k)].outcome = "ok"
  /\ exec.status = "completed" => exec.output_result = context.step_outputs

\* C29: whichever execution_events inserts the store refuses, the outcome of a
\* run is the same function of what the Action Invoker and the Fix Proposer
\* returned: the refused inserts change only the events that are recorded
C29_LostEventsKeepOutcome ==
  /\ OutcomeOfInputs
  /\ \A n \in DOMAIN events : events[n].event_type \notin refused

\* a run with a healed step has completed while the store refused every event
C29_Witness ==
  /\ refused = EventTypes
  /\ events = <<>>
  /\ pc = "done"
  /\ exec.status = "completed"
  /\ Len(steps) = 2
  /\ HealedRetry(0)
  /\ rows[LatestRow(0)].status = "healed"

ClosedStatuses == {"completed", "failed", "healed"}

================================================================================
